---------------------------- MODULE Spec2Model ----------------------------
(***************************************************************************)
(* A model of the copypasta clipboard library.                             *)
(*                                                                         *)
(*   SpecContentType  the ContentType conversions of the pasteboard        *)
(*                    backend (osx_clipboard.rs), applied to bounded       *)
(*                    inputs;                                              *)
(*   SpecOSX          OSXClipboardContext: threads of one process calling  *)
(*                    the five provider operations on the shared general   *)
(*                    pasteboard under CLIPBOARD_CONTEXT_MUTEX, with other *)
(*                    applications writing the pasteboard at any moment;   *)
(*   SpecX11          X11RbClipboardContext: one client of the selection   *)
(*                    protocol, the display server, the selection owner    *)
(*                    and other clients sending events.                    *)
(*                                                                         *)
(* Text is a sequence of Unicode scalar values, bytes are sequences of     *)
(* 0..255, native format identifiers and atom names are strings.           *)
(***************************************************************************)
EXTENDS Integers, Sequences, FiniteSets, TLC

VARIABLES
    \* ---- SpecContentType
    ctArg,        \* the ContentType handed to the conversions
    nRes,         \* normalize_content_type(ctArg)
    dRes,         \* denormalize_content_type(ctArg)
    ndRes,        \* denormalize_content_type(nRes)
    nnRes,        \* normalize_content_type(nRes)
    ctDone,       \* which of the four results above have been computed
    \* ---- SpecOSX
    pasteboard,   \* the general pasteboard: a sequence of items, each a
                  \* function from native type identifiers to bytes
    mutex,        \* holder of CLIPBOARD_CONTEXT_MUTEX, or NoThread
    pc,           \* per thread: where it stands in its current call
    call,         \* per thread: the operation called and its arguments
    local,        \* per thread: the locals of the call
    ret,          \* per thread: what its last call handed to the caller
    lastWrite,    \* history: the last clear/write sequence on the pasteboard
    \* ---- SpecX11
    xpc,          \* where the client stands in its current call
    xcall,        \* the operation called
    xret,         \* what the last call handed to the caller
    owner,        \* the selection owner: the targets it offers, or none
    prop,         \* the scratch property PROPERTY on the client's window
    queue,        \* events queued on the client's connection
    pending,      \* conversion requests the owner has not answered yet
    xlocal,       \* locals of the call: atoms still to name, names so far
    connUp,       \* the connection to the display server is usable
    answered      \* history: who answered the conversion of this call

ctVars  == <<ctArg, nRes, dRes, ndRes, nnRes, ctDone>>
osxVars == <<pasteboard, mutex, pc, call, local, ret, lastWrite>>
x11Vars == <<xpc, xcall, xret, owner, prop, queue, pending, xlocal, connUp, answered>>
vars    == <<ctVars, osxVars, x11Vars>>

-----------------------------------------------------------------------------
(* ContentType (common.rs) and its conversions (osx_clipboard.rs)          *)

\* enum ContentType { Text, Html, Pdf, Png, Rtf, Url, Custom(String) }
WellKnownTags == {"Text", "Html", "Pdf", "Png", "Rtf", "Url"}

Known(tag) == [tag |-> tag, s |-> ""]

Custom(s) == [tag |-> "Custom", s |-> s]

Text == Known("Text")
Html == Known("Html")
Pdf  == Known("Pdf")
Png  == Known("Png")
Rtf  == Known("Rtf")
Url  == Known("Url")

\* The native identifiers the pasteboard backend recognizes.
Recognized ==
    {"public.file-url", "public.html", "com.adobe.pdf", "public.png",
     "public.rtf", "public.utf8-plain-text"}

\* Identifiers with no well-known variant (case and whitespace matter to
\* the match of From<T>).
Unrecognized ==
    {"", "dyn.a", "Public.html", "public.html ", "text/html", "public.jpeg"}

NativeStrings == Recognized \cup Unrecognized

ContentTypes == {Known(t) : t \in WellKnownTags} \cup {Custom(s) : s \in NativeStrings}

\* A conversion that maps a recognized identifier to the wrong variant.
ContentType_from_swapped(t) ==
    CASE t = "public.file-url"        -> Url
      [] t = "public.html"            -> Rtf
      [] t = "com.adobe.pdf"          -> Pdf
      [] t = "public.png"             -> Png
      [] t = "public.rtf"             -> Html
      [] t = "public.utf8-plain-text" -> Text
      [] OTHER                        -> Custom(t)

\* impl<T: AsRef<str>> From<T> for ContentType
ContentType_from(t) ==
    CASE t = "public.file-url"        -> Url
      [] t = "public.html"            -> Html
      [] t = "com.adobe.pdf"          -> Pdf
      [] t = "public.png"             -> Png
      [] t = "public.rtf"             -> Rtf
      [] t = "public.utf8-plain-text" -> Text
      [] OTHER                        -> Custom(t)

\* A normalization that trims the identifier before matching it.
normalize_lossy(ct) ==
    IF ct.tag = "Custom"
    THEN IF ct.s = "public.html " THEN Html ELSE ContentType_from(ct.s)
    ELSE ct

\* OSXClipboardContext::normalize_content_type
normalize_content_type(ct) ==
    IF ct.tag = "Custom" THEN ContentType_from(ct.s) ELSE ct

\* OSXClipboardContext::denormalize_content_type
denormalize_content_type(ct) ==
    CASE ct.tag = "Url"    -> "public.file-url"
      [] ct.tag = "Html"   -> "public.html"
      [] ct.tag = "Pdf"    -> "com.adobe.pdf"
      [] ct.tag = "Png"    -> "public.png"
      [] ct.tag = "Rtf"    -> "public.rtf"
      [] ct.tag = "Text"   -> "public.utf8-plain-text"
      [] ct.tag = "Custom" -> ct.s

\* impl From<&ContentType> for Id<NSString>
NSString_from_ContentType(ct) == denormalize_content_type(ct)

-----------------------------------------------------------------------------
(* Bounds and data                                                         *)

\* Longest text handed to set_contents, in characters.
MaxStrLen == 1

\* 'h' (one byte of UTF-8) and U+00E9 (two bytes).
Chars == {104, 233}

SeqsUpTo(S, n) == UNION {[1..k -> S] : k \in 0..n}

RECURSIVE Utf8Encode(_)
\* str::as_bytes of the text: the UTF-8 encoding of its scalar values.
Utf8Encode(cps) ==
    IF cps = <<>> THEN <<>>
    ELSE LET c == Head(cps)
             enc == IF c < 128 THEN <<c>>
                    ELSE IF c < 2048 THEN <<192 + (c \div 64), 128 + (c % 64)>>
                    ELSE <<224 + (c \div 4096), 128 + ((c \div 64) % 64), 128 + (c % 64)>>
         IN  enc \o Utf8Encode(Tail(cps))

IsCont(b) == b >= 128 /\ b < 192

RECURSIVE Utf8Decode(_)
\* String::from_utf8 / NSString initWithBytes:encoding:NSUTF8StringEncoding:
\* the scalar values of a byte sequence, or failure on a malformed sequence
\* (stray continuation byte, truncated or overlong form, surrogate, > 3 bytes
\* leads outside the data of this model).
Utf8Decode(b) ==
    IF b = <<>> THEN [ok |-> TRUE, cps |-> <<>>]
    ELSE LET b1 == b[1]
             n  == IF b1 < 128 THEN 1
                   ELSE IF b1 >= 194 /\ b1 < 224 THEN 2
                   ELSE IF b1 >= 224 /\ b1 < 240 THEN 3
                   ELSE 0
         IN  IF n = 0 \/ Len(b) < n THEN [ok |-> FALSE, cps |-> <<>>]
             ELSE LET cp == IF n = 1 THEN b1
                            ELSE IF n = 2 THEN (b1 - 192) * 64 + (b[2] - 128)
                            ELSE (b1 - 224) * 4096 + (b[2] - 128) * 64 + (b[3] - 128)
                      good == /\ \A i \in 2..n : IsCont(b[i])
                              /\ (n = 3 => cp >= 2048 /\ ~(cp >= 55296 /\ cp < 57344))
                      rest == Utf8Decode(SubSeq(b, n + 1, Len(b)))
                  IN  IF good /\ rest.ok
                      THEN [ok |-> TRUE, cps |-> <<cp>> \o rest.cps]
                      ELSE [ok |-> FALSE, cps |-> <<>>]

\* The Rust Strings callers hand to set_contents: valid UTF-8 byte sequences.
Strings == {Utf8Encode(cps) : cps \in SeqsUpTo(Chars, MaxStrLen)}

\* Byte payloads of set_content_types: "h", and bytes that are not UTF-8.
Blobs == {<<104>>, <<255, 0>>}

\* Keys of the mappings handed to set_content_types. Custom("public.html")
\* and Html are different keys of a HashMap<ContentType, _> (derived Eq/Hash).
MapKeys == {Text, Html, Custom("public.html")}

EmptyMap == [k \in {} |-> <<>>]

Map1(k, v) == [x \in {k} |-> v]

Map2(k1, v1, k2, v2) == [x \in {k1, k2} |-> IF x = k1 THEN v1 ELSE v2]

\* The mappings handed to set_content_types: none, one or two entries; text
\* that is and is not UTF-8; a key that is not normalized; two keys that
\* denote the same native format.
Maps ==
    {EmptyMap,
     Map1(Text, <<104>>),
     Map1(Text, <<255, 0>>),
     Map1(Custom("public.html"), <<104>>),
     Map2(Html, <<104>>, Text, <<255, 0>>),
     Map2(Html, <<104>>, Custom("public.html"), <<255, 0>>)}

\* ContentTypes asked of get_content_for_type.
AskedTypes == MapKeys

\* All orders in which an iterator may visit the set S.
Orders(S) == {f \in [1..Cardinality(S) -> S] : \A x \in S : \E i \in DOMAIN f : f[i] = x}

Threads == {"t1", "t2"}

NoThread == "none"

-----------------------------------------------------------------------------
(* Result<T> as the caller sees it (common.rs)                             *)

Res(kind, msg, bytes, types) == [kind |-> kind, msg |-> msg, bytes |-> bytes, types |-> types]

NoRet        == Res("None", "", <<>>, <<>>)
OkUnit       == Res("Ok", "", <<>>, <<>>)
OkString(b)  == Res("OkString", "", b, <<>>)
OkBytes(b)   == Res("OkBytes", "", b, <<>>)
OkTypes(cts) == Res("OkTypes", "", <<>>, cts)
Err(msg)     == Res("Err", msg, <<>>, <<>>)
Panic(msg)   == Res("Panic", msg, <<>>, <<>>)

-----------------------------------------------------------------------------
(* The system pasteboard, as the msg_send! calls of osx_clipboard.rs use it *)

\* A pasteboard item is a sequence of [typ, data] entries with distinct typ.
Entry(typ, data) == [typ |-> typ, data |-> data]

HasType(item, typ) == \E i \in DOMAIN item : item[i].typ = typ

DataOf(item, typ) == item[CHOOSE i \in DOMAIN item : item[i].typ = typ].data

\* msg_send![pasteboard_item, setData:data forType:typ]
setData_forType(item, data, typ) ==
    IF HasType(item, typ)
    THEN [i \in DOMAIN item |-> IF item[i].typ = typ THEN Entry(typ, data) ELSE item[i]]
    ELSE Append(item, Entry(typ, data))

\* A clearContents that leaves the previous items in place.
clearContents_keep(pb) == pb

\* msg_send![self.pasteboard, clearContents]
clearContents(pb) == <<>>

\* msg_send![self.pasteboard, writeObjects: objs], when it reports success
writeObjects(pb, objs) == pb \o objs

\* msg_send![self.pasteboard, pasteboardItems] followed by first_object():
\* None is <<>>, Some(item) is <<item>>.
first_object(pb) == IF Len(pb) = 0 THEN <<>> ELSE <<pb[1]>>

\* msg_send![first_item.unwrap(), types]
item_types(item) == [i \in DOMAIN item |-> item[i].typ]

\* msg_send![self.pasteboard, dataForType: typ]: the data of the first item
\* holding the type; nil is <<>>, data d is <<d>>.
dataForType(pb, typ) ==
    IF \E i \in DOMAIN pb : HasType(pb[i], typ)
    THEN LET i == CHOOSE i \in DOMAIN pb :
                     /\ HasType(pb[i], typ)
                     /\ \A j \in 1..(i - 1) : ~HasType(pb[j], typ)
         IN  <<DataOf(pb[i], typ)>>
    ELSE <<>>

\* NSString::from_str(&data): the NSString holding the text of a Rust str.
NSString_from_str(b) == Utf8Decode(b).cps

\* An as_str that cuts the text at its first non-ASCII character.
NSString_as_str_ascii(cps) ==
    IF \E i \in DOMAIN cps : cps[i] >= 128
    THEN Utf8Encode(SubSeq(cps, 1, (CHOOSE i \in DOMAIN cps :
                                       cps[i] >= 128 /\ \A j \in 1..(i - 1) : cps[j] < 128) - 1))
    ELSE Utf8Encode(cps)

\* string.as_str().to_owned(): the Rust String of an NSString.
NSString_as_str(cps) == Utf8Encode(cps)

\* What writeObjects stores for an NSString: one item of plain text.
NSString_item(cps) == <<Entry("public.utf8-plain-text", Utf8Encode(cps))>>

RECURSIVE StringsOf(_)
\* msg_send![self.pasteboard, readObjectsForClasses:[NSString] options:{}]:
\* one NSString per item that holds plain text which is valid UTF-8.
StringsOf(pb) ==
    IF pb = <<>> THEN <<>>
    ELSE LET item == Head(pb)
             here == IF HasType(item, "public.utf8-plain-text")
                        /\ Utf8Decode(DataOf(item, "public.utf8-plain-text")).ok
                     THEN <<Utf8Decode(DataOf(item, "public.utf8-plain-text")).cps>>
                     ELSE <<>>
         IN  here \o StringsOf(Tail(pb))

readObjectsForClasses(pb) == StringsOf(pb)

RECURSIVE BuildItem(_, _, _)
\* The loop of set_content_types over map.into_iter(), visiting the keys in
\* the order `order`: one setData:forType: per entry.
BuildItem(item, order, map) ==
    IF order = <<>> THEN item
    ELSE BuildItem(setData_forType(item, map[Head(order)], NSString_from_ContentType(Head(order))),
                   Tail(order), map)

\* What other applications put on the pasteboard: nothing, one item, or two
\* items of which only the second holds HTML.
OtherPayloads ==
    { <<>>,
      << <<Entry("public.utf8-plain-text", <<104>>), Entry("public.png", <<255, 0>>)>> >>,
      << <<Entry("public.png", <<255, 0>>)>>, <<Entry("public.html", <<104>>)>> >> }

-----------------------------------------------------------------------------
(* OSXClipboardContext (osx_clipboard.rs)                                  *)

\* The calls a thread can make: operation and arguments.
Call(op, str, map, ct) == [op |-> op, str |-> str, map |-> map, ct |-> ct]

NoCall == Call("none", <<>>, EmptyMap, Text)

Calls ==
    {Call("new", <<>>, EmptyMap, Text),
     Call("get_contents", <<>>, EmptyMap, Text),
     Call("get_content_types", <<>>, EmptyMap, Text)}
    \cup {Call("set_contents", s, EmptyMap, Text) : s \in Strings}
    \cup {Call("get_content_for_type", <<>>, EmptyMap, ct) : ct \in AskedTypes}
    \cup {Call("set_content_types", <<>>, m, Text) : m \in Maps}

\* The locals of a call: `item` is the Option first_item() returned, `stale`
\* tells that the pasteboard was cleared or rewritten since, `objs` is the
\* array the call is about to write. `before` is history: what the
\* pasteboard held when the call sent clearContents.
Local(item, stale, objs, before) ==
    [item |-> item, stale |-> stale, objs |-> objs, before |-> before]

NoLocal == Local(<<>>, FALSE, <<>>, <<>>)

\* The last clear/write sequence on the pasteboard: the call that ran it and
\* how far it got ("cleared", "written", "failed"), or "other" for a write
\* of another application.
Write(c, phase) == [call |-> c, phase |-> phase]

NoWrite == Write(NoCall, "none")

\* The first program point of an operation once it holds the guard.
Entry_pc(op) ==
    CASE op = "new"                  -> "new_get"
      [] op = "get_contents"         -> "gc_read"
      [] op = "set_contents"         -> "sc_clear"
      [] op = "get_content_types"    -> "gt_first"
      [] op = "get_content_for_type" -> "gf_first"
      [] op = "set_content_types"    -> "st_clear"

\* An item fetched by first_item() belongs to the pasteboard contents it was
\* fetched from: once these are cleared, threads still holding such an item
\* hold a stale one.
MarkStale(loc) ==
    [u \in Threads |->
        IF pc[u] = "gt_types" THEN [loc[u] EXCEPT !.stale = TRUE] ELSE loc[u]]

InitOSX ==
    /\ pasteboard = <<>>
    /\ mutex = NoThread
    /\ pc = [t \in Threads |-> "idle"]
    /\ call = [t \in Threads |-> NoCall]
    /\ local = [t \in Threads |-> NoLocal]
    /\ ret = [t \in Threads |-> NoRet]
    /\ lastWrite = NoWrite

\* A thread is in one of the operations once it has the guard.
Enter(t, c) ==
    /\ pc[t] = "idle"
    /\ mutex' = t
    /\ call' = [call EXCEPT ![t] = c]
    /\ pc' = [pc EXCEPT ![t] = Entry_pc(c.op)]
    /\ local' = [local EXCEPT ![t] = NoLocal]
    /\ ret' = [ret EXCEPT ![t] = NoRet]
    /\ UNCHANGED <<pasteboard, lastWrite>>
    /\ UNCHANGED <<ctVars, x11Vars>>

\* A lock() that does not wait for the guard.
lock_nowait(t) ==
    \E c \in Calls : Enter(t, c)

\* A thread calls one of the operations, whose first statement is
\* let lock = CLIPBOARD_CONTEXT_MUTEX.lock(): the call blocks while another
\* thread holds the guard and goes on once it has it. (The guard is never
\* poisoned: no operation panics while it holds it.)
lock(t) ==
    /\ mutex = NoThread
    /\ \E c \in Calls : Enter(t, c)

\* The end of a call: its result goes to the caller and its locals die.
Return(t, r) ==
    /\ ret' = [ret EXCEPT ![t] = r]
    /\ pc' = [pc EXCEPT ![t] = "idle"]

\* OSXClipboardContext::new: generalPasteboard under the guard, which the
\* return drops.
new(t) ==
    /\ pc[t] = "new_get"
    /\ Return(t, OkUnit)
    /\ mutex' = NoThread
    /\ UNCHANGED <<pasteboard, call, local, lastWrite>>
    /\ UNCHANGED <<ctVars, x11Vars>>

\* The result of get_contents from what readObjectsForClasses returned.
get_contents_result(string_array) ==
    IF Len(string_array) = 0
    THEN Err("pasteboard#readObjectsForClasses:options: returned empty")
    ELSE OkString(NSString_as_str(string_array[1]))

\* get_contents: readObjectsForClasses:options:, the count() test and the
\* return, which drops the guard.
get_contents(t) ==
    /\ pc[t] = "gc_read"
    /\ Return(t, get_contents_result(readObjectsForClasses(pasteboard)))
    /\ mutex' = NoThread
    /\ UNCHANGED <<pasteboard, call, local, lastWrite>>
    /\ UNCHANGED <<ctVars, x11Vars>>

\* set_contents, NSArray::from_vec(vec![NSString::from_str(&data)]) and
\* clearContents.
set_contents_clear(t) ==
    /\ pc[t] = "sc_clear"
    /\ pasteboard' = clearContents(pasteboard)
    /\ local' = [MarkStale(local) EXCEPT
                   ![t].objs = <<NSString_item(NSString_from_str(call[t].str))>>,
                   ![t].before = pasteboard]
    /\ lastWrite' = Write(call[t], "cleared")
    /\ pc' = [pc EXCEPT ![t] = "sc_write"]
    /\ UNCHANGED <<mutex, call, ret>>
    /\ UNCHANGED <<ctVars, x11Vars>>

\* What writeObjects: can report to thread t: success or failure while the
\* pasteboard is still as t's clearContents left it, failure alone once
\* another application has taken the pasteboard over in between.
writeObjects_reports(t) ==
    IF lastWrite = Write(call[t], "cleared") THEN BOOLEAN ELSE {FALSE}

\* set_contents, writeObjects: the pasteboard reports success or failure;
\* the return drops the guard.
set_contents_write(t) ==
    /\ pc[t] = "sc_write"
    /\ \E success \in writeObjects_reports(t) :
          /\ pasteboard' = IF success THEN writeObjects(pasteboard, local[t].objs)
                                      ELSE pasteboard
          /\ lastWrite' = IF success THEN Write(call[t], "written")
                          ELSE IF lastWrite = Write(call[t], "cleared")
                          THEN Write(call[t], "failed")
                          ELSE lastWrite
          /\ Return(t, IF success THEN OkUnit
                       ELSE Err("NSPasteboard#writeObjects: returned false"))
    /\ mutex' = NoThread
    /\ local' = [local EXCEPT ![t] = NoLocal]
    /\ UNCHANGED call
    /\ UNCHANGED <<ctVars, x11Vars>>

\* get_content_types, first_item() and the early return of an empty list.
\* In `let first_item = self.first_item(&mut lock.unwrap())`, unwrap() moves
\* the guard into a temporary that is dropped at the end of the statement
\* (the returned reference borrows self), so the guard is released here.
get_content_types_first(t) ==
    /\ pc[t] = "gt_first"
    /\ local' = [local EXCEPT ![t].item = first_object(pasteboard), ![t].stale = FALSE]
    /\ mutex' = NoThread
    /\ IF first_object(pasteboard) = <<>>
       THEN Return(t, OkTypes(<<>>))
       ELSE /\ ret' = ret
            /\ pc' = [pc EXCEPT ![t] = "gt_types"]
    /\ UNCHANGED <<pasteboard, call, lastWrite>>
    /\ UNCHANGED <<ctVars, x11Vars>>

\* What `types` answers for an item: its types, or, for an item whose
\* pasteboard contents have been replaced since, possibly nothing.
types_answers(item, stale) ==
    {item_types(item)} \cup (IF stale THEN {<<>>} ELSE {})

\* A collect that wraps every identifier in Custom.
collect_types_custom(tys) == [i \in DOMAIN tys |-> Custom(tys[i])]

\* types.enumerator().into_iter().map(|t| t.as_str().into()).collect()
collect_types(tys) == [i \in DOMAIN tys |-> ContentType_from(tys[i])]

\* get_content_types, `types` of the item and the conversion of each
\* identifier with into(); returns.
get_content_types_types(t) ==
    /\ pc[t] = "gt_types"
    /\ \E tys \in types_answers(local[t].item[1], local[t].stale) :
          Return(t, OkTypes(collect_types(tys)))
    /\ UNCHANGED <<pasteboard, mutex, call, local, lastWrite>>
    /\ UNCHANGED <<ctVars, x11Vars>>

\* get_content_for_type, first_item() and the early return on None; the
\* guard is a temporary of the first_item statement here too.
get_content_for_type_first(t) ==
    /\ pc[t] = "gf_first"
    /\ local' = local
    /\ mutex' = NoThread
    /\ IF first_object(pasteboard) = <<>>
       THEN Return(t, Err("clipboard is empty"))
       ELSE /\ ret' = ret
            /\ pc' = [pc EXCEPT ![t] = "gf_data"]
    /\ UNCHANGED <<pasteboard, call, lastWrite>>
    /\ UNCHANGED <<ctVars, x11Vars>>

\* get_content_for_type, dataForType: on the pasteboard; returns.
get_content_for_type_data(t) ==
    /\ pc[t] = "gf_data"
    /\ LET data == dataForType(pasteboard, NSString_from_ContentType(call[t].ct))
       IN  Return(t, IF data = <<>> THEN Err("clipboard does not have data for")
                     ELSE OkBytes(data[1]))
    /\ UNCHANGED <<pasteboard, mutex, call, local, lastWrite>>
    /\ UNCHANGED <<ctVars, x11Vars>>

\* set_content_types, the new NSPasteboardItem, the loop over the map in
\* whatever order the HashMap iterates, and clearContents.
set_content_types_clear(t) ==
    /\ pc[t] = "st_clear"
    /\ \E order \in Orders(DOMAIN call[t].map) :
          local' = [MarkStale(local) EXCEPT
                      ![t].objs = <<BuildItem(<<>>, order, call[t].map)>>,
                      ![t].before = pasteboard]
    /\ pasteboard' = clearContents(pasteboard)
    /\ lastWrite' = Write(call[t], "cleared")
    /\ pc' = [pc EXCEPT ![t] = "st_write"]
    /\ UNCHANGED <<mutex, call, ret>>
    /\ UNCHANGED <<ctVars, x11Vars>>

\* set_content_types, writeObjects: success or failure; the return drops
\* the guard.
set_content_types_write(t) ==
    /\ pc[t] = "st_write"
    /\ \E success \in writeObjects_reports(t) :
          /\ pasteboard' = IF success THEN writeObjects(pasteboard, local[t].objs)
                                      ELSE pasteboard
          /\ lastWrite' = IF success THEN Write(call[t], "written")
                          ELSE IF lastWrite = Write(call[t], "cleared")
                          THEN Write(call[t], "failed")
                          ELSE lastWrite
          /\ Return(t, IF success THEN OkUnit ELSE Err("writeObject failed"))
    /\ mutex' = NoThread
    /\ local' = [local EXCEPT ![t] = NoLocal]
    /\ UNCHANGED call
    /\ UNCHANGED <<ctVars, x11Vars>>

\* Another application replaces the contents of the general pasteboard; it
\* knows nothing of this process's guard.
OtherAppWrite ==
    /\ \E p \in OtherPayloads : pasteboard' = p
    /\ local' = MarkStale(local)
    /\ lastWrite' = Write(NoCall, "other")
    /\ UNCHANGED <<mutex, pc, call, ret>>
    /\ UNCHANGED <<ctVars, x11Vars>>

NextOSX ==
    \/ \E t \in Threads : lock(t)
    \/ \E t \in Threads : new(t)
    \/ \E t \in Threads : get_contents(t)
    \/ \E t \in Threads : set_contents_clear(t)
    \/ \E t \in Threads : set_contents_write(t)
    \/ \E t \in Threads : get_content_types_first(t)
    \/ \E t \in Threads : get_content_types_types(t)
    \/ \E t \in Threads : get_content_for_type_first(t)
    \/ \E t \in Threads : get_content_for_type_data(t)
    \/ \E t \in Threads : set_content_types_clear(t)
    \/ \E t \in Threads : set_content_types_write(t)
    \/ OtherAppWrite

-----------------------------------------------------------------------------
(* X11RbClipboardContext (x11rb_clipboard.rs)                              *)

\* Most events queued on the connection at once.
MaxQueue == 2

\* Most conversion requests waiting for the selection owner at once.
MaxPending == 2

\* The display server's atom table: an atom is an index into it. The first
\* five are the atoms new() interns; the rest are formats owners offer.
AtomTable ==
    <<"CLIPBOARD", "UTF8_STRING", "TARGETS", "PROPERTY", "ATOM", "text/html", "INCR">>

NoneAtom == 0

\* fn intern_atom(connection, name): the atom of a name in the table.
intern_atom(name) == CHOOSE a \in DOMAIN AtomTable : AtomTable[a] = name

\* The fields of the session set by X11RbClipboardContext::new.
clipboard   == intern_atom("CLIPBOARD")
utf8_string == intern_atom("UTF8_STRING")
targets     == intern_atom("TARGETS")
property    == intern_atom("PROPERTY")
atom        == intern_atom("ATOM")

\* fn atom_name(connection, atom): the name of an atom; the request fails
\* (BadAtom) for a value that is no atom.
atom_name(a) ==
    IF a \in DOMAIN AtomTable THEN [ok |-> TRUE, name |-> AtomTable[a]]
    ELSE [ok |-> FALSE, name |-> ""]

\* A window property: type atom, format (0, 8 or 32) and value, either bytes
\* (format 8) or 32-bit values (format 32).
Prop(exists, type, format, bytes, atoms) ==
    [exists |-> exists, type |-> type, format |-> format, bytes |-> bytes, atoms |-> atoms]

NoProp == Prop(FALSE, NoneAtom, 0, <<>>, <<>>)

PropBytes(p) == IF p.format = 32 THEN 4 * Len(p.atoms) ELSE Len(p.bytes)

\* The display server's answer to GetProperty(delete = false, window,
\* property, type, long_offset = 0, long_length = u32::MAX): nothing for a
\* property that does not exist; the actual type and the size, without the
\* value, for a property of another type; else the whole value.
GetPropertyReply(p, type) ==
    IF ~p.exists
    THEN [type |-> NoneAtom, format |-> 0, bytes_after |-> 0, value |-> <<>>, value32 |-> <<>>]
    ELSE IF p.type # type
    THEN [type |-> p.type, format |-> p.format, bytes_after |-> PropBytes(p),
          value |-> <<>>, value32 |-> <<>>]
    ELSE [type |-> p.type, format |-> p.format, bytes_after |-> 0,
          value |-> p.bytes, value32 |-> p.atoms]

\* X11RbClipboardContext::get_full_property
get_full_property(p, type) == GetPropertyReply(p, type)

\* An event on the connection. `from` records who caused it: the server
\* ("server": no owner), the selection owner ("owner") or another client
\* ("other").
Event(type, requestor, target, prop_, from) ==
    [type |-> type, requestor |-> requestor, target |-> target, property |-> prop_, from |-> from]

\* Events other clients send or the server generates that are not the
\* answer to a conversion of this client: keyboard mapping changes, client
\* messages, and SelectionNotify events sent with SendEvent.
OtherEvents ==
    {Event("MappingNotify", "none", NoneAtom, NoneAtom, "server"),
     Event("SelectionNotify", "window", utf8_string, property, "other")}

\* A selection owner: the text it hands out for UTF8_STRING (if any), the
\* list it hands out for TARGETS, which is whatever 32-bit values the owner
\* chooses to write (an identifier may come twice, a value may be no atom),
\* and whether it hands out its text incrementally, storing a property of
\* type INCR that holds a size and sending the data later in pieces.
Owner(present, hasText, text, tlist, incr) ==
    [present |-> present, hasText |-> hasText, text |-> text, tlist |-> tlist, incr |-> incr]

NoOwner == Owner(FALSE, FALSE, <<>>, <<>>, FALSE)

Owners ==
    {NoOwner,
     Owner(TRUE, TRUE, <<195, 169>>, <<targets, utf8_string>>, FALSE),
     Owner(TRUE, TRUE, <<255, 0>>, <<utf8_string, utf8_string>>, FALSE),
     Owner(TRUE, FALSE, <<>>, <<intern_atom("text/html"), NoneAtom>>, FALSE),
     Owner(TRUE, TRUE, <<104>>, <<utf8_string>>, TRUE)}

XLocal(atoms, names) == [atoms |-> atoms, names |-> names]

InitX11 ==
    /\ xpc = "idle"
    /\ xcall = "none"
    /\ xret = NoRet
    /\ owner = NoOwner
    /\ prop = NoProp
    /\ queue = <<>>
    /\ pending = <<>>
    /\ xlocal = XLocal(<<>>, <<>>)
    /\ connUp = TRUE
    /\ answered = "none"

\* What the display server does with ConvertSelection(requestor, selection,
\* target, property, time): with no owner it answers itself, with a
\* SelectionNotify whose property is None; else it hands the request to the
\* owner.
ConvertSelection(target) ==
    IF owner.present
    THEN /\ pending' = Append(pending, target)
         /\ queue' = queue
    ELSE /\ pending' = pending
         /\ queue' = Append(queue, Event("SelectionNotify", "window", target, NoneAtom, "server"))

\* The head of get_contents and of get_content_types: convert_selection,
\* cookie.check() and flush(); each fails with the connection.
x_convert(op, target) ==
    /\ xpc = "idle"
    /\ xcall' = op
    /\ xlocal' = XLocal(<<>>, <<>>)
    /\ answered' = "none"
    /\ IF connUp
       THEN /\ Len(queue) < MaxQueue
            /\ Len(pending) < MaxPending
            /\ ConvertSelection(target)
            /\ xpc' = "await"
            /\ xret' = NoRet
       ELSE /\ xpc' = "idle"
            /\ xret' = Err("connection error")
            /\ UNCHANGED <<queue, pending>>
    /\ UNCHANGED <<owner, prop, connUp>>
    /\ UNCHANGED <<ctVars, osxVars>>

\* get_contents up to the loop.
x_get_contents_convert == x_convert("get_contents", utf8_string)

\* get_content_types up to the loop.
x_get_content_types_convert == x_convert("get_content_types", targets)

\* In a debug build debug_assert_eq!(reply.bytes_after, 0) panics when bytes
\* remain; a release build has no such check.
Builds == {"debug", "release"}

\* A decoding that never fails: bytes that are not UTF-8 give the
\* replacement character U+FFFD.
from_utf8_lossy(b) == IF Utf8Decode(b).ok THEN OkString(b) ELSE OkString(<<239, 191, 189>>)

\* String::from_utf8(val.value).map_err(..)
from_utf8(b) == IF Utf8Decode(b).ok THEN OkString(b) ELSE Err("invalid utf-8 sequence")

\* The arm Event::SelectionNotify(_ev) of get_contents: the property read and
\* the decoding. The fields of _ev are not looked at.
x_get_contents_notify(ev) ==
    LET val == get_full_property(prop, utf8_string)
    IN  /\ xpc' = "idle"
        /\ xlocal' = xlocal
        /\ answered' = ev.from
        /\ \E build \in Builds :
              xret' = IF val.bytes_after # 0 /\ build = "debug"
                      THEN Panic("assertion failed: reply.bytes_after == 0")
                      ELSE from_utf8(val.value)

\* The arm Event::SelectionNotify(_ev) of get_content_types: the property
\* read and value32(), which is None unless the format is 32.
x_get_content_types_notify(ev) ==
    LET val == get_full_property(prop, atom)
    IN  /\ answered' = ev.from
        /\ \E build \in Builds :
              IF val.bytes_after # 0 /\ build = "debug"
              THEN /\ xret' = Panic("assertion failed: reply.bytes_after == 0")
                   /\ xpc' = "idle"
                   /\ xlocal' = xlocal
              ELSE IF val.format # 32
              THEN /\ xret' = Err("invalid response format for targets")
                   /\ xpc' = "idle"
                   /\ xlocal' = xlocal
              ELSE /\ xret' = xret
                   /\ xpc' = "names"
                   /\ xlocal' = XLocal(val.value32, <<>>)

\* One turn of the loop: wait_for_event() hands over the next event; a
\* SelectionNotify ends the wait, anything else is printed and dropped.
x_wait_for_event ==
    /\ xpc = "await"
    /\ connUp
    /\ queue # <<>>
    /\ queue' = Tail(queue)
    /\ LET ev == Head(queue)
       IN  IF ev.type = "SelectionNotify"
           THEN IF xcall = "get_contents"
                THEN x_get_contents_notify(ev)
                ELSE x_get_content_types_notify(ev)
           ELSE UNCHANGED <<xpc, xret, xlocal, answered>>
    /\ UNCHANGED <<xcall, owner, prop, pending, connUp>>
    /\ UNCHANGED <<ctVars, osxVars>>

\* wait_for_event()? (or a request of the call) fails: the connection broke.
x_connection_error ==
    /\ xpc \in {"await", "names"}
    /\ ~connUp
    /\ xpc' = "idle"
    /\ xret' = Err("connection error")
    /\ UNCHANGED <<xcall, owner, prop, queue, pending, xlocal, connUp, answered>>
    /\ UNCHANGED <<ctVars, osxVars>>

\* The loop over val.value32() in get_content_types: one get_atom_name round
\* trip per value, each wrapped in ContentType::Custom; then Ok(cts).
x_atom_name ==
    /\ xpc = "names"
    /\ connUp
    /\ IF xlocal.atoms = <<>>
       THEN /\ xret' = OkTypes(xlocal.names)
            /\ xpc' = "idle"
            /\ xlocal' = xlocal
       ELSE LET r == atom_name(Head(xlocal.atoms))
            IN  IF r.ok
                THEN /\ xlocal' = XLocal(Tail(xlocal.atoms), Append(xlocal.names, Custom(r.name)))
                     /\ UNCHANGED <<xpc, xret>>
                ELSE /\ xret' = Err("BadAtom")
                     /\ xpc' = "idle"
                     /\ xlocal' = xlocal
    /\ UNCHANGED <<xcall, owner, prop, queue, pending, connUp, answered>>
    /\ UNCHANGED <<ctVars, osxVars>>

\* X11RbClipboardContext::set_contents: todo!() panics.
x_set_contents ==
    /\ xpc = "idle"
    /\ xcall' = "set_contents"
    /\ xret' = Panic("not yet implemented")
    /\ UNCHANGED <<xpc, owner, prop, queue, pending, xlocal, connUp, answered>>
    /\ UNCHANGED <<ctVars, osxVars>>

\* ClipboardProvider::get_content_for_type and ::set_content_types, which
\* this backend does not override: the default bodies.
x_default(op) ==
    /\ xpc = "idle"
    /\ xcall' = op
    /\ xret' = Err("unsupported for this platform")
    /\ UNCHANGED <<xpc, owner, prop, queue, pending, xlocal, connUp, answered>>
    /\ UNCHANGED <<ctVars, osxVars>>

x_get_content_for_type == x_default("get_content_for_type")

x_set_content_types == x_default("set_content_types")

\* The selection owner answers the oldest request handed to it: it stores
\* the converted data (or, handing it out incrementally, a property of type
\* INCR) on the requestor's property and sends SelectionNotify naming the
\* property, or refuses with a SelectionNotify naming None.
OwnerAnswer ==
    /\ pending # <<>>
    /\ Len(queue) < MaxQueue
    /\ pending' = Tail(pending)
    /\ LET target == Head(pending)
       IN  IF target = utf8_string /\ owner.hasText
           THEN /\ prop' = IF owner.incr
                           THEN Prop(TRUE, intern_atom("INCR"), 32, <<>>, <<Len(owner.text)>>)
                           ELSE Prop(TRUE, utf8_string, 8, owner.text, <<>>)
                /\ queue' = Append(queue, Event("SelectionNotify", "window", target, property, "owner"))
           ELSE IF target = targets
           THEN /\ prop' = Prop(TRUE, atom, 32, <<>>, owner.tlist)
                /\ queue' = Append(queue, Event("SelectionNotify", "window", target, property, "owner"))
           ELSE /\ prop' = prop
                /\ queue' = Append(queue, Event("SelectionNotify", "window", target, NoneAtom, "owner"))
    /\ UNCHANGED <<xpc, xcall, xret, owner, xlocal, connUp, answered>>
    /\ UNCHANGED <<ctVars, osxVars>>

\* Another application takes the selection, or the owner goes away; requests
\* the old owner had not answered are never answered.
OwnerChange ==
    /\ \E o \in Owners : o # owner /\ owner' = o
    /\ pending' = <<>>
    /\ UNCHANGED <<xpc, xcall, xret, prop, queue, xlocal, connUp, answered>>
    /\ UNCHANGED <<ctVars, osxVars>>

\* An event that answers no conversion of this client arrives.
OtherEvent ==
    /\ connUp
    /\ Len(queue) < MaxQueue
    /\ \E e \in OtherEvents : queue' = Append(queue, e)
    /\ UNCHANGED <<xpc, xcall, xret, owner, prop, pending, xlocal, connUp, answered>>
    /\ UNCHANGED <<ctVars, osxVars>>

\* The connection to the display server breaks.
ConnectionBreaks ==
    /\ connUp
    /\ connUp' = FALSE
    /\ UNCHANGED <<xpc, xcall, xret, owner, prop, queue, pending, xlocal, answered>>
    /\ UNCHANGED <<ctVars, osxVars>>

NextX11 ==
    \/ x_get_contents_convert
    \/ x_get_content_types_convert
    \/ x_wait_for_event
    \/ x_connection_error
    \/ x_atom_name
    \/ x_set_contents
    \/ x_get_content_for_type
    \/ x_set_content_types
    \/ OwnerAnswer
    \/ OwnerChange
    \/ OtherEvent
    \/ ConnectionBreaks

-----------------------------------------------------------------------------
(* The conversions applied to bounded inputs                               *)

NoCT == [tag |-> "None", s |-> ""]

InitCT ==
    /\ ctArg \in ContentTypes
    /\ nRes = NoCT
    /\ dRes = ""
    /\ ndRes = ""
    /\ nnRes = NoCT
    /\ ctDone = {}

\* normalize_content_type(ctArg)
ApplyNormalize ==
    /\ "n" \notin ctDone
    /\ nRes' = normalize_content_type(ctArg)
    /\ ctDone' = ctDone \cup {"n"}
    /\ UNCHANGED <<ctArg, dRes, ndRes, nnRes>>
    /\ UNCHANGED <<osxVars, x11Vars>>

\* denormalize_content_type(ctArg)
ApplyDenormalize ==
    /\ "d" \notin ctDone
    /\ dRes' = denormalize_content_type(ctArg)
    /\ ctDone' = ctDone \cup {"d"}
    /\ UNCHANGED <<ctArg, nRes, ndRes, nnRes>>
    /\ UNCHANGED <<osxVars, x11Vars>>

\* denormalize_content_type(normalize_content_type(ctArg))
ApplyDenormalizeNormalized ==
    /\ "n" \in ctDone /\ "nd" \notin ctDone
    /\ ndRes' = denormalize_content_type(nRes)
    /\ ctDone' = ctDone \cup {"nd"}
    /\ UNCHANGED <<ctArg, nRes, dRes, nnRes>>
    /\ UNCHANGED <<osxVars, x11Vars>>

\* normalize_content_type(normalize_content_type(ctArg))
ApplyNormalizeTwice ==
    /\ "n" \in ctDone /\ "nn" \notin ctDone
    /\ nnRes' = normalize_content_type(nRes)
    /\ ctDone' = ctDone \cup {"nn"}
    /\ UNCHANGED <<ctArg, nRes, dRes, ndRes>>
    /\ UNCHANGED <<osxVars, x11Vars>>

NextCT ==
    \/ ApplyNormalize
    \/ ApplyDenormalize
    \/ ApplyDenormalizeNormalized
    \/ ApplyNormalizeTwice

-----------------------------------------------------------------------------
(* Specifications                                                          *)

\* The values of a group of variables while another specification runs.
IdleCT ==
    /\ ctArg = Text /\ nRes = NoCT /\ dRes = "" /\ ndRes = "" /\ nnRes = NoCT /\ ctDone = {}

InitSpecContentType == InitCT /\ InitOSX /\ InitX11

InitSpecOSX == IdleCT /\ InitOSX /\ InitX11

InitSpecX11 == IdleCT /\ InitOSX /\ InitX11

SpecContentType == InitSpecContentType /\ [][NextCT]_vars

SpecOSX == InitSpecOSX /\ [][NextOSX]_vars

SpecX11 == InitSpecX11 /\ [][NextX11]_vars

\* The selection-protocol backend with the scheduling its code relies on:
\* the thread inside a call keeps running, so wait_for_event() hands over an
\* event that is queued, a failed connection makes the pending request of
\* the call fail, and the loop of name lookups goes on.
SpecX11Live ==
    /\ InitSpecX11
    /\ [][NextX11]_vars
    /\ WF_vars(x_wait_for_event)
    /\ WF_vars(x_connection_error)
    /\ WF_vars(x_atom_name)

-----------------------------------------------------------------------------
(* Properties of the pasteboard backend                                    *)

SeqRange(q) == {q[i] : i \in DOMAIN q}

\* A sequence in which no element comes twice.
NoDuplicates(q) == \A i, j \in DOMAIN q : q[i] = q[j] => i = j

\* The last clear/write sequence was a successful call of `op`.
Written(op) == lastWrite.phase = "written" /\ lastWrite.call.op = op

\* Thread t returns from get_content_types with the types of an item that
\* nobody has cleared or replaced since t fetched it.
ReturnsTypes(t) == pc[t] = "gt_types" /\ pc'[t] = "idle" /\ ~local[t].stale

\* Thread t returns from get_content_for_type after the dataForType fetch.
ReturnsData(t) == pc[t] = "gf_data" /\ pc'[t] = "idle"

\* Thread t returns from get_contents.
ReturnsText(t) == pc[t] = "gc_read" /\ pc'[t] = "idle"

\* The keys of a mapping that denote the same native format as ct.
SameFormat(m, ct) ==
    {k \in DOMAIN m : denormalize_content_type(k) = denormalize_content_type(ct)}

C1_Step_Original ==
    \A t \in Threads :
       Written("set_content_types") =>
          LET m == lastWrite.call.map
          IN  /\ ReturnsTypes(t) =>
                    /\ ret'[t].kind = "OkTypes"
                    /\ SeqRange(ret'[t].types) = DOMAIN m
              /\ (ReturnsData(t) /\ call[t].ct \in DOMAIN m) =>
                    ret'[t] = OkBytes(m[call[t].ct])

C1_Step ==
    \A t \in Threads :
       Written("set_content_types") =>
          LET m == lastWrite.call.map
          IN  /\ ReturnsTypes(t) =>
                    /\ ret'[t].kind = "OkTypes"
                    /\ SeqRange(ret'[t].types) = {normalize_content_type(k) : k \in DOMAIN m}
              /\ (ReturnsData(t) /\ call[t].ct \in DOMAIN m) =>
                    /\ ret'[t].kind = "OkBytes"
                    /\ ret'[t].bytes \in {m[k] : k \in SameFormat(m, call[t].ct)}

KeysOf(c) == IF c.op = "set_contents" THEN {Text} ELSE DOMAIN c.map

C2_Step_Original ==
    \A t \in Threads :
       (lastWrite.phase = "written" /\ ReturnsTypes(t)) =>
          /\ ret'[t].kind = "OkTypes"
          /\ SeqRange(ret'[t].types) = KeysOf(lastWrite.call)

\* C2, as stated: after any sequence of successful set_content_types /
\* set_contents calls, get_content_types() reports exactly the keys of the
\* most recent successful set, and nothing of the sets before it.
C2_Replace_Original == [][C2_Step_Original]_vars

\* What the pasteboard holds after a successful set: the one item written,
\* with exactly the native formats of the keys supplied.
C2_Stored ==
    lastWrite.phase = "written" =>
       /\ Len(pasteboard) = 1
       /\ SeqRange(item_types(pasteboard[1]))
             = {denormalize_content_type(k) : k \in KeysOf(lastWrite.call)}

C2_Step ==
    \A t \in Threads :
       (lastWrite.phase = "written" /\ ReturnsTypes(t)) =>
          /\ ret'[t].kind = "OkTypes"
          /\ SeqRange(ret'[t].types)
                = {normalize_content_type(k) : k \in KeysOf(lastWrite.call)}

\* C2, amended: a successful set replaces, it does not merge: after any
\* sequence of successful set_content_types / set_contents calls the
\* pasteboard holds one item with exactly the native formats of the keys of
\* the most recent successful set, and get_content_types() reports exactly
\* the normalized keys of that set; nothing of earlier sets remains.
C2_Replace == [](C2_Stored) /\ [][C2_Step]_vars

\* C2, witness: one thread has set {Html, Text}, then {Text} alone was set
\* and read back as exactly {Text}.
C2_Witness ==
    /\ lastWrite = Write(Call("set_content_types", <<>>, Map1(Text, <<104>>), Text), "written")
    /\ \E t, u \in Threads :
          /\ pc[u] = "idle" /\ ret[u] = OkUnit
          /\ call[u] = Call("set_content_types", <<>>, Map2(Html, <<104>>, Text, <<255, 0>>), Text)
          /\ pc[t] = "idle" /\ call[t].op = "get_content_types"
          /\ ret[t] = OkTypes(<<Text>>)

\* The program points of set_contents and get_contents between their first
\* and their last access to the pasteboard.
TextSections == {"gc_read", "sc_clear", "sc_write"}

\* C4: set_contents and get_contents run their clear-then-write and their
\* read entirely under the guard: a thread inside either holds the guard, no
\* two threads are inside at once, and no thread is about to read in
\* get_contents while another has cleared and not yet written.
C4_TextCallsExclusive ==
    /\ \A t \in Threads : pc[t] \in TextSections => mutex = t
    /\ \A t, u \in Threads :
          (t # u /\ pc[t] \in TextSections) => pc[u] \notin TextSections
    /\ \A t, u \in Threads : ~(pc[t] = "gc_read" /\ pc[u] = "sc_write")

\* C4, witness: a thread stands between clearContents and writeObjects of
\* set_contents while the other has finished a get_contents.
C4_Witness ==
    \E t, u \in Threads :
       /\ t # u
       /\ pc[t] = "sc_write" /\ pasteboard = <<>> /\ lastWrite.phase = "cleared"
       /\ pc[u] = "idle" /\ call[u].op = "get_contents" /\ ret[u].kind = "OkString"

\* The program points at which an operation has pasteboard accesses left.
AccessSections ==
    {"new_get", "gc_read", "sc_clear", "sc_write", "gt_first", "gt_types",
     "gf_first", "gf_data", "st_clear", "st_write"}

\* C5, as stated: every operation holds the guard from its first access to
\* the pasteboard until its last, the type enumeration of get_content_types
\* and the dataForType fetch of get_content_for_type included.
C5_GuardHeldThroughout ==
    \A t \in Threads : pc[t] \in AccessSections => mutex = t

\* The pasteboard half of C3: get_contents on a pasteboard with no string
\* object returns an error, not an empty string.
C3_Pasteboard_Step ==
    \A t \in Threads :
       (ReturnsText(t) /\ readObjectsForClasses(pasteboard) = <<>>) => ret'[t].kind = "Err"

C3_Pasteboard == [][C3_Pasteboard_Step]_vars

\* C8: after a successful set_contents(s) with no write in between (and so
\* after a sequence of them, for the last one), get_contents() returns
\* exactly s, byte for byte.
C8_TextRoundTrip ==
    [][\A t \in Threads :
          (Written("set_contents") /\ ReturnsText(t)) =>
             ret'[t] = OkString(lastWrite.call.str)]_vars

\* C8, witness: U+00E9, two bytes of UTF-8, has been set by one thread after
\* the other had set "h", and has been read back.
C8_Witness ==
    /\ lastWrite = Write(Call("set_contents", <<195, 169>>, EmptyMap, Text), "written")
    /\ \E t, u \in Threads :
          /\ pc[t] = "idle" /\ call[t].op = "get_contents" /\ ret[t] = OkString(<<195, 169>>)
          /\ pc[u] = "idle" /\ call[u] = Call("set_contents", <<104>>, EmptyMap, Text)
          /\ ret[u] = OkUnit

\* The pasteboard half of C10: get_content_types on a pasteboard with no
\* item returns an empty list.
C10_Pasteboard_Step ==
    \A t \in Threads :
       (pc[t] = "gt_first" /\ pasteboard = <<>>) => (pc'[t] = "idle" => ret'[t] = OkTypes(<<>>))

C10_Pasteboard == [][C10_Pasteboard_Step]_vars

\* The pasteboard half of C11: every list get_content_types returns is
\* normalized and holds no content type twice.
C11_Pasteboard_Step ==
    \A t \in Threads :
       (call[t].op = "get_content_types" /\ pc[t] # "idle" /\ pc'[t] = "idle") =>
          /\ ret'[t].kind = "OkTypes"
          /\ NoDuplicates(ret'[t].types)
          /\ \A i \in DOMAIN ret'[t].types :
                normalize_content_type(ret'[t].types[i]) = ret'[t].types[i]

C11_Pasteboard == [][C11_Pasteboard_Step]_vars

\* The content types get_content_types() reports for a pasteboard: those of
\* its first item, none when there is no item.
OfferedTypes(pb) ==
    IF first_object(pb) = <<>> THEN {}
    ELSE SeqRange(collect_types(item_types(first_object(pb)[1])))

\* Thread t returns from get_content_for_type.
ReturnsFromForType(t) ==
    call[t].op = "get_content_for_type" /\ pc[t] \in {"gf_first", "gf_data"} /\ pc'[t] = "idle"

C12_Step ==
    \A t \in Threads :
       ReturnsFromForType(t) =>
          IF normalize_content_type(call[t].ct) \in OfferedTypes(pasteboard)
          THEN ret'[t] = OkBytes(DataOf(pasteboard[1], denormalize_content_type(call[t].ct)))
          ELSE ret'[t].kind = "Err"

\* C12, as stated: get_content_for_type(T) returns the bytes of T when T
\* (up to normalization) is among the types get_content_types() would report
\* for the pasteboard as it is at the return, and an error otherwise, the
\* empty pasteboard included.
C12_SucceedsIffOffered == [][C12_Step]_vars

\* Thread t returns from set_contents or set_content_types, no other
\* application having written to the pasteboard since t's clearContents.
ReturnsFromSet(t) ==
    /\ pc[t] \in {"sc_write", "st_write"} /\ pc'[t] = "idle"
    /\ lastWrite = Write(call[t], "cleared")

\* The native formats a pasteboard offers, item by item.
Offers(pb) == [i \in DOMAIN pb |-> SeqRange(item_types(pb[i]))]

C19_Step ==
    \A t \in Threads :
       ReturnsFromSet(t) =>
          IF ret'[t] = OkUnit
          THEN Offers(pasteboard')
                  = <<{denormalize_content_type(k) : k \in KeysOf(call[t])}>>
          ELSE Offers(pasteboard') = Offers(local[t].before)

\* C19, as stated: after a set_contents / set_content_types call the
\* pasteboard offers exactly the types supplied, when the call succeeded, or
\* exactly the types it offered before the call, when the call returned an
\* error: a failed write leaves it neither cleared nor partly written.
C19_AllOrNothing == [][C19_Step]_vars

-----------------------------------------------------------------------------
(* Properties of the conversions                                           *)

\* C6: for every recognized native identifier s, normalize(Custom(s)) is a
\* well-known variant, never Custom, and denormalize of it is s again.
C6_RoundTrip ==
    (ctArg.tag = "Custom" /\ ctArg.s \in Recognized) =>
       /\ "n" \in ctDone => nRes.tag \in WellKnownTags
       /\ "nd" \in ctDone => ndRes = ctArg.s

\* C6, witness: Custom("public.html") has been normalized to Html and Html
\* denormalized to "public.html".
C6_Witness ==
    /\ ctArg = Custom("public.html")
    /\ {"n", "nd"} \subseteq ctDone
    /\ nRes = Html
    /\ ndRes = "public.html"

\* C7: for an identifier s that is not recognized, normalize(Custom(s)) is
\* Custom(s) and denormalize(Custom(s)) is s; normalize leaves every variant
\* other than Custom as it is; normalize always yields a ContentType and
\* normalizing twice is normalizing once.
C7_IdentityElsewhere ==
    /\ (ctArg.tag = "Custom" /\ ctArg.s \notin Recognized) =>
          /\ "n" \in ctDone => nRes = ctArg
          /\ "d" \in ctDone => dRes = ctArg.s
    /\ ctArg.tag # "Custom" => ("n" \in ctDone => nRes = ctArg)
    /\ "n" \in ctDone => nRes \in ContentTypes
    /\ "nn" \in ctDone => nnRes = nRes

\* C7, witness: an identifier that differs from a recognized one by a
\* trailing blank has gone through normalize (twice) and denormalize.
C7_Witness ==
    /\ ctArg = Custom("public.html ")
    /\ {"n", "d", "nn"} \subseteq ctDone
    /\ nRes = ctArg /\ nnRes = ctArg /\ dRes = "public.html "

-----------------------------------------------------------------------------
(* Properties of the selection-protocol backend                            *)

\* The call has returned after a conversion that the display server itself
\* answered, there being no selection owner, and nothing has ever been
\* stored on the scratch property: the clipboard is empty.
ReturnedOnEmptyClipboard(op) ==
    /\ xpc = "idle" /\ xcall = op
    /\ answered = "server"
    /\ ~owner.present /\ ~prop.exists

\* C3, as stated: get_contents against an empty clipboard fails with an
\* error; it never returns a string, empty or not.
C3_EmptyIsError ==
    ReturnedOnEmptyClipboard("get_contents") => xret.kind = "Err"

\* The operations this backend does not implement.
Unimplemented == {"set_contents", "get_content_for_type", "set_content_types"}

\* C9, as stated: a call of a capability the backend does not implement
\* returns an error value to the caller; it does not panic.
C9_UnsupportedIsError ==
    (xpc = "idle" /\ xcall \in Unimplemented) => xret.kind = "Err"

\* C10, as stated: get_content_types against an empty clipboard returns a
\* successful empty sequence, not an error.
C10_EmptyIsEmptyList ==
    ReturnedOnEmptyClipboard("get_content_types") => xret = OkTypes(<<>>)

\* get_content_types has returned a list.
ReturnedTypes == xpc = "idle" /\ xcall = "get_content_types" /\ xret.kind = "OkTypes"

\* C11, as stated: every list get_content_types() returns is normalized (no
\* element is a Custom that normalization turns into a well-known variant)
\* and holds no content type twice, whatever identifiers, repeated ones
\* included, the selection owner reports.
C11_NormalizedDeduplicated ==
    ReturnedTypes =>
       /\ NoDuplicates(xret.types)
       /\ \A i \in DOMAIN xret.types :
             normalize_content_type(xret.types[i]) = xret.types[i]
\* One turn of the wait loop: the call takes the head of the queue.
WaitStep == xpc = "await" /\ queue # <<>> /\ queue' = Tail(queue)

\* The target of the conversion the current call has requested.
RequestedTarget == IF xcall = "get_contents" THEN utf8_string ELSE targets

\* The notification the current call waits for, as far as the fields of an
\* event tell: a SelectionNotify for the client's window and for the target
\* it requested, naming its scratch property or None.
Expected(ev) ==
    /\ ev.type = "SelectionNotify"
    /\ ev.requestor = "window"
    /\ ev.target = RequestedTarget
    /\ ev.property \in {property, NoneAtom}

C13_Step ==
    (WaitStep /\ ~Expected(Head(queue))) =>
       /\ xpc' = "await"
       /\ UNCHANGED <<xret, xlocal, answered>>

\* C13, as stated: the wait of get_contents and get_content_types ends only
\* on the notification for the client's own window and its own request;
\* every other event is dropped and the call keeps waiting, without reading
\* the property.
C13_WaitEndsOnlyOnOwnNotify == [][C13_Step]_vars
\* The conversion was refused: the notification that ends the wait names no
\* property, so nothing was stored for this call.
Refused(ev) == ev.type = "SelectionNotify" /\ ev.property = NoneAtom

C14_Step ==
    (WaitStep /\ Refused(Head(queue)) /\ prop.exists) =>
       /\ ~(xret'.kind = "OkString" /\ prop.type = utf8_string /\ xret'.bytes = prop.bytes)
       /\ ~(xpc' = "names" /\ xlocal'.atoms = prop.atoms)

\* C14, as stated: what get_contents / get_content_types return is the
\* owner's answer to the request of that same call; when the conversion is
\* refused (there is no owner, or the owner cannot convert) while the
\* scratch property still holds the data of an earlier call, the call
\* returns none of that data: neither the stored text nor the stored list.
C14_NothingKeptAcrossCalls == [][C14_Step]_vars
\* The conversion requests sent and not yet answered.
Outstanding == Len(pending)

AtMostOneOutstanding == Outstanding <= 1

\* The call moves Idle -> AwaitingNotify by sending one request, which the
\* owner is handed or, there being no owner, the server answers at once.
SendsOneRequest ==
    /\ Len(pending') + Len(queue') = Len(pending) + Len(queue) + 1
    /\ UNCHANGED prop
    /\ xlocal' = XLocal(<<>>, <<>>)

C15_Step ==
    /\ (xpc = "idle" /\ xpc' # "idle") => (xpc' = "await" /\ SendsOneRequest)
    /\ xpc # "idle" => Len(pending') <= Len(pending)
    /\ (xpc = "await" /\ xpc' # "await") =>
          \/ WaitStep /\ Head(queue).type = "SelectionNotify"
          \/ ~connUp /\ xpc' = "idle" /\ xret'.kind = "Err"
    /\ (xpc = "await" /\ xpc' = "await") => UNCHANGED <<xret, xlocal>>
    /\ xpc' = "names" => (xpc = "names" \/ (xpc = "await" /\ WaitStep))
    /\ (xpc = "names" /\ xlocal' # xlocal) =>
          /\ Len(xlocal'.names) = Len(xlocal.names) + 1
          /\ xlocal'.atoms = Tail(xlocal.atoms)
    /\ xpc = "names" => xpc' \in {"names", "idle"}

\* The order of the steps inside one call: one request, sent before the
\* wait; no property read before a notification; name lookups one at a time
\* and only after the property read.
C15_Ordering == [][C15_Step]_vars

\* C15, as stated: each call follows Idle -> AwaitingNotify -> Done or
\* Errored with one request sent before the wait, the property read after
\* the notification and the lookups after the read, and at no time is more
\* than one conversion request outstanding on the connection.
C15_OneRequestAtATime == [](AtMostOneOutstanding) /\ [][C15_Step]_vars
\* A SelectionNotify is queued on the connection.
NotifyQueued == \E i \in DOMAIN queue : queue[i].type = "SelectionNotify"

\* Under fairness a call that waits returns once a SelectionNotify has been
\* delivered, however many other events precede it, and a call returns once
\* the connection has failed.
C16_Returns ==
    /\ (xpc = "await" /\ connUp /\ NotifyQueued) ~> (xpc = "idle")
    /\ (xpc # "idle" /\ ~connUp) ~> (xpc = "idle")

\* There is no timeout and no retry: the wait ends only when the selection
\* owner (or, there being no owner, the display server) has answered, or
\* when the connection has failed.
C16_Step ==
    (xpc = "await" /\ xpc' # "await") =>
       \/ ~connUp
       \/ WaitStep /\ Head(queue).from \in {"owner", "server"}

\* C16, as stated: once the request is sent the call returns if the
\* notification is eventually delivered or the connection eventually fails,
\* and, there being no timeout or retry, it never returns while the owner
\* has not answered and the connection stays up.
C16_RunsToCompletion == C16_Returns /\ [][C16_Step]_vars
\* get_contents returns from the arm of SelectionNotify, the debug
\* assertion of get_full_property not having stopped it.
DecodesProperty ==
    /\ WaitStep /\ xcall = "get_contents"
    /\ Head(queue).type = "SelectionNotify"
    /\ xret'.kind # "Panic"

C17_Step ==
    DecodesProperty =>
       LET bytes == GetPropertyReply(prop, utf8_string).value
       IN  IF Utf8Decode(bytes).ok
           THEN xret' = OkString(bytes)
           ELSE xret'.kind = "Err"

\* C17: when the bytes get_contents reads from the scratch property are not
\* valid UTF-8 it returns an error, no partial or substituted string; when
\* they are valid UTF-8 it returns exactly those bytes.
C17_DecodeOrError == [][C17_Step]_vars

\* C17, witness: an owner has handed out the bytes FF 00, which are not
\* UTF-8, and get_contents has returned the decoding error.
C17_Witness ==
    /\ xpc = "idle" /\ xcall = "get_contents" /\ answered = "owner"
    /\ prop = Prop(TRUE, utf8_string, 8, <<255, 0>>, <<>>)
    /\ xret = Err("invalid utf-8 sequence")
\* The type the current call names in its GetProperty request.
RequestedType == IF xcall = "get_contents" THEN utf8_string ELSE atom

\* The call reads the property the owner stored for it.
ReadsOwnersProperty ==
    /\ WaitStep
    /\ Head(queue).type = "SelectionNotify" /\ Head(queue).property = property
    /\ prop.exists

C18_Step ==
    ReadsOwnersProperty =>
       /\ GetPropertyReply(prop, RequestedType).bytes_after = 0
       /\ xret'.kind # "Panic"
       /\ (xcall = "get_contents" /\ xret'.kind = "OkString") => xret'.bytes = prop.bytes
       /\ (xcall = "get_content_types" /\ xpc' = "names") => xlocal'.atoms = prop.atoms

\* C18, as stated: the property read leaves nothing unread, the assertion
\* bytes_after == 0 holds for every property the selection owner stores,
\* and the value the call goes on with is the whole value of the property.
C18_NothingLeftUnread == [][C18_Step]_vars

=============================================================================
